---- MODULE Spec2Model ----
(***************************************************************************)
(* Model of the progress / spaced-repetition / streak core of the          *)
(* language-learning backend (backend/app/models/learning.py,              *)
(* backend/app/models/gamification.py and backend/app/models/user.py).     *)
(*                                                                         *)
(* Number representation (the source uses Python floats):                  *)
(*   score, performance, best_score : tenths        (8  is 0.8)            *)
(*   average_score                  : reduced fraction <<num, den>> of     *)
(*                                    tenths: the value of the running     *)
(*                                    mean in exact arithmetic             *)
(*   average_score_float            : the float the source stores in       *)
(*                                    average_score, with the rounding of  *)
(*                                    each operation; None in the          *)
(*                                    specifications that do not follow it *)
(*   ease_factor                    : thousandths   (2500 is 2.5)          *)
(*   completion_percentage          : percent       (20 is 20.0)           *)
(*   datetime                       : slots, SlotsPerDay slots to a        *)
(*                                    calendar day; .date() is the day     *)
(*                                    ordinal t \div SlotsPerDay           *)
(* Elsewhere the arithmetic is exact and the rounding of the               *)
(* floating-point operations is not modelled.  A method reads the clock once (now) where the source     *)
(* calls datetime.now() several times within the same call.                *)
(***************************************************************************)
EXTENDS Integers, Sequences, FiniteSets, TLC

VARIABLES progress, now, qualifying, reviews, seen, streak, ret, awarded, call,
          exercise, attempt, achievement, user_stats, user, result, goal, goal_hist

progressVars == <<progress, now, qualifying, reviews, seen>>

streakVars == <<streak, ret, awarded>>

scoreVars == <<exercise, attempt>>

achievementVars == <<achievement, user_stats>>

goalVars == <<goal, goal_hist>>

vars == <<progressVars, streakVars, scoreVars, achievementVars, goalVars, user, result, call>>

(* Optional[datetime]: None is the empty tuple, a value t is <<t>> *)
NULL == <<>>

Some(t) == <<t>>

Value(opt) == opt[1]

----------------------------------------------------------------------------
(* Bounds *)

MaxAttempts == 6
MaxReviews == 8
MaxNow == 1
MaxDay == 10
MaxTotalStreaks == 2
SlotsPerDay == 2

MaxProgressReviews == 2

(* score and performance values, in tenths *)
Scores == 0 .. 10
AttemptScores == {0, 5, 8, 10}
AttemptPerformances == {5, 8}
TimesSpent == {0, 7}

----------------------------------------------------------------------------
(* Program constants *)

SEVEN_DAYS == 7
THIRTY_DAYS == 30
HUNDRED_DAYS == 100
YEAR == 365

SEVEN_DAY_STREAK == "7_day_streak"
THIRTY_DAY_STREAK == "30_day_streak"
HUNDRED_DAY_STREAK == "100_day_streak"
YEAR_STREAK == "365_day_streak"

AchievementNames == {SEVEN_DAY_STREAK, THIRTY_DAY_STREAK, HUNDRED_DAY_STREAK, YEAR_STREAK}

Statuses == <<"not_started", "in_progress", "completed", "mastered">>

----------------------------------------------------------------------------
(* Arithmetic helpers *)

Max(a, b) == IF a >= b THEN a ELSE b

Min(a, b) == IF a <= b THEN a ELSE b

RECURSIVE GCD(_, _)
GCD(a, b) == IF b = 0 THEN a ELSE GCD(b, a % b)

Reduce(n, d) == IF n = 0 THEN <<0, 1>> ELSE <<n \div GCD(n, d), d \div GCD(n, d)>>

----------------------------------------------------------------------------
(* Python floats (IEEE-754 binary64, round to nearest, ties to even)        *)
(*                                                                         *)
(* A natural number of any size is the set of the positions of its 1 bits  *)
(* (5 is {0, 2}).  A non-negative float is [m |-> mantissa, e |-> exponent]*)
(* with value m * 2^e and a mantissa of exactly 53 bits, or FloatZero.     *)
(* Negative values, subnormals, infinities and NaN do not arise from       *)
(* scores in [0,1] and are left out.                                       *)

Bits(n) == {i \in 0 .. 30 : (n \div 2^i) % 2 = 1}

Shl(A, k) == {i + k : i \in A}

Shr(A, k) == {i - k : i \in {j \in A : j >= k}}

Top(A) == CHOOSE i \in A : \A j \in A : j <= i

BitLen(A) == IF A = {} THEN 0 ELSE Top(A) + 1

(* A < B *)
Less(A, B) ==
    LET differ == (A \cup B) \ (A \cap B)
    IN differ # {} /\ Top(differ) \in B

RECURSIVE AddBits(_, _)
AddBits(A, B) ==
    IF B = {} THEN A
    ELSE AddBits((A \cup B) \ (A \cap B), Shl(A \cap B, 1))

RECURSIVE MulBits(_, _)
MulBits(A, k) ==
    IF k = 0 THEN {}
    ELSE AddBits(IF k % 2 = 1 THEN A ELSE {}, Shl(MulBits(A, k \div 2), 1))

(* long division of A by n from bit i down, given the quotient bits q and  *)
(* the remainder r of the bits above i: [q |-> A \div n, r |-> A % n]     *)
RECURSIVE DivStep(_, _, _, _, _)
DivStep(A, n, i, q, r) ==
    IF i < 0 THEN [q |-> q, r |-> r]
    ELSE IF 2 * r + (IF i \in A THEN 1 ELSE 0) >= n
    THEN DivStep(A, n, i - 1, q \cup {i}, 2 * r + (IF i \in A THEN 1 ELSE 0) - n)
    ELSE DivStep(A, n, i - 1, q, 2 * r + (IF i \in A THEN 1 ELSE 0))

DivBits(A, n) == DivStep(A, n, BitLen(A) - 1, {}, 0)

FloatZero == [m |-> {}, e |-> 0]

(* the float nearest to N * 2^e (plus a non-zero amount below the last bit *)
(* of N when inexact is true), ties to the even mantissa                   *)
RoundToFloat(N, e, inexact) ==
    IF N = {} THEN FloatZero
    ELSE IF BitLen(N) <= 53
    THEN [m |-> Shl(N, 53 - BitLen(N)), e |-> e - (53 - BitLen(N))]
    ELSE LET drop == BitLen(N) - 53
             kept == Shr(N, drop)
             half == (drop - 1) \in N
             below == inexact \/ \E i \in N : i < drop - 1
             up == half /\ (below \/ 0 \in kept)
             rounded == IF up THEN AddBits(kept, {0}) ELSE kept
         IN IF 53 \in rounded
            THEN [m |-> {52}, e |-> e + drop + 1]
            ELSE [m |-> rounded, e |-> e + drop]

(* float(k) for an int k >= 0 *)
float(k) == RoundToFloat(Bits(k), 0, FALSE)

(* x * k for a float x and an int k >= 0 *)
float_mul(x, k) == RoundToFloat(MulBits(x.m, k), x.e, FALSE)

(* x + y *)
float_add(x, y) ==
    LET e == Min(x.e, y.e)
    IN RoundToFloat(AddBits(Shl(x.m, x.e - e), Shl(y.m, y.e - e)), e, FALSE)

(* x / n for a float x and an int n in 1 .. 63 *)
float_div(x, n) ==
    LET d == DivBits(Shl(x.m, 8), n)
    IN RoundToFloat(d.q, x.e - 8, d.r # 0)

(* x <= y *)
float_le(x, y) ==
    \/ x.m = {}
    \/ /\ y.m # {}
       /\ \/ x.e < y.e
          \/ x.e = y.e /\ ~Less(y.m, x.m)

(* the float a score of the model stands for: 8 tenths is the float 0.8 *)
float_score(score) == float_div(float(score), 10)

----------------------------------------------------------------------------
(* UserLessonProgress *)

NewProgress ==
    [ status |-> "not_started",
      completion_percentage |-> 0,
      attempts |-> 0,
      last_reviewed |-> NULL,
      next_review |-> NULL,
      review_count |-> 0,
      ease_factor |-> 2500,
      average_score |-> <<0, 1>>,
      average_score_float |-> NULL,
      best_score |-> 0,
      total_time_spent |-> 0,
      completed_at |-> NULL,
      updated_at |-> 0 ]

(* 1000 * (0.1 - q*(0.08 + q*0.02)) with q = 5 - 5*performance; for         *)
(* performance p tenths q = (10-p)/2, so the value is the integer below.   *)
ease_delta(performance) ==
    100 - 40 * (10 - performance) - 5 * (10 - performance) * (10 - performance)

(* the second review scheduled from the ease factor like the later ones *)
review_interval_from_ease(self, performance) ==
    IF performance >= 6
    THEN IF self.review_count = 0 THEN 1
         ELSE (self.ease_factor * self.review_count) \div 1000
    ELSE 1

(* a failed review scheduled like a successful one *)
review_interval_no_reset(self, performance) ==
    IF self.review_count = 0 THEN 1
    ELSE IF self.review_count = 1 THEN 6
    ELSE (self.ease_factor * self.review_count) \div 1000

(* a failed review due again on the same day *)
review_interval_same_day(self, performance) ==
    IF performance >= 6
    THEN IF self.review_count = 0 THEN 1
         ELSE IF self.review_count = 1 THEN 6
         ELSE (self.ease_factor * self.review_count) \div 1000
    ELSE 0

review_interval(self, performance) ==
    IF performance >= 6
    THEN IF self.review_count = 0 THEN 1
         ELSE IF self.review_count = 1 THEN 6
         ELSE (self.ease_factor * self.review_count) \div 1000
    ELSE 1

(* the floor missing on the failure branch *)
new_ease_factor_unfloored(ef, performance) ==
    IF performance >= 6
    THEN Max(1300, ef + ease_delta(performance))
    ELSE ef - 200

new_ease_factor(ef, performance) ==
    IF performance >= 6
    THEN Max(1300, ef + ease_delta(performance))
    ELSE Max(1300, ef - 200)

(* SM-2 as published: a failed review starts the repetitions again *)
schedule_next_review_resets(self, performance, t) ==
    [ self EXCEPT
        !.ease_factor = new_ease_factor(self.ease_factor, performance),
        !.review_count = IF performance >= 6 THEN self.review_count + 1 ELSE 0,
        !.next_review = Some(t + review_interval(self, performance) * SlotsPerDay),
        !.last_reviewed = Some(t),
        !.updated_at = t ]

(* the interval computed after ease_factor and review_count were updated *)
schedule_next_review_updated_first(self, performance, t) ==
    LET updated == [ self EXCEPT
                       !.ease_factor = new_ease_factor(self.ease_factor, performance),
                       !.review_count = self.review_count + 1 ]
    IN [ updated EXCEPT
           !.next_review = Some(t + review_interval(updated, performance) * SlotsPerDay),
           !.last_reviewed = Some(t),
           !.updated_at = t ]

schedule_next_review(self, performance, t) ==
    [ self EXCEPT
        !.ease_factor = new_ease_factor(self.ease_factor, performance),
        !.review_count = self.review_count + 1,
        !.next_review = Some(t + review_interval(self, performance) * SlotsPerDay),
        !.last_reviewed = Some(t),
        !.updated_at = t ]

(* the new score averaged with the old average, whatever the number of attempts *)
new_average_unweighted(avg, n, score) ==
    IF n = 1 THEN Reduce(score, 1)
    ELSE Reduce(avg[1] + score * avg[2], avg[2] * 2)

(* average_score after the attempt counter has been incremented to n *)
new_average(avg, n, score) ==
    IF n = 1 THEN Reduce(score, 1)
    ELSE Reduce(avg[1] * (n - 1) + score * avg[2], avg[2] * n)

(* average_score as the source computes it, in floats: x is the stored     *)
(* average, n the incremented attempt counter                              *)
new_average_float(x, n, score) ==
    IF n = 1 THEN float_score(score)
    ELSE float_div(float_add(float_mul(x, n - 1), float_score(score)), n)

(* the latest score kept instead of the best *)
new_best_latest(best, score) == score

new_best(best, score) == IF score > best THEN score ELSE best

(* a strict comparison with the 0.8 threshold *)
bump_completion_strict(cp, score) ==
    IF score > 8 THEN Min(100, cp + 20) ELSE cp

bump_completion(cp, score) ==
    IF score >= 8 THEN Min(100, cp + 20) ELSE cp

(* any attempt starts the lesson *)
next_status_started(status, cp) ==
    IF cp >= 100 THEN "completed"
    ELSE IF cp > 0 \/ status = "not_started" THEN "in_progress"
    ELSE status

(* the lesson completed from 80 percent on *)
next_status_early(status, cp) ==
    IF cp >= 80 THEN "completed"
    ELSE IF cp > 0 THEN "in_progress"
    ELSE status

next_status(status, cp) ==
    IF cp >= 100 THEN "completed"
    ELSE IF cp > 0 THEN "in_progress"
    ELSE status

(* the attempt counted as a review of the lesson *)
update_progress_marks_reviewed(self, score, time_spent, t) ==
    LET n == self.attempts + 1
        cp == bump_completion(self.completion_percentage, score)
    IN [ self EXCEPT
           !.attempts = n,
           !.total_time_spent = self.total_time_spent + time_spent,
           !.best_score = new_best(self.best_score, score),
           !.average_score = new_average(self.average_score, n, score),
           !.completion_percentage = cp,
           !.status = next_status(self.status, cp),
           !.completed_at = IF cp >= 100 THEN Some(t) ELSE self.completed_at,
           !.last_reviewed = Some(t),
           !.updated_at = t ]

(* the attempt also schedules the next review *)
update_progress_delegating(self, score, time_spent, t) ==
    LET n == self.attempts + 1
        cp == bump_completion(self.completion_percentage, score)
    IN schedule_next_review(
         [ self EXCEPT
             !.attempts = n,
             !.total_time_spent = self.total_time_spent + time_spent,
             !.best_score = new_best(self.best_score, score),
             !.average_score = new_average(self.average_score, n, score),
             !.completion_percentage = cp,
             !.status = next_status(self.status, cp),
             !.completed_at = IF cp >= 100 THEN Some(t) ELSE self.completed_at,
             !.updated_at = t ],
         score, t)

update_progress(self, score, time_spent, t) ==
    LET n == self.attempts + 1
        cp == bump_completion(self.completion_percentage, score)
    IN [ self EXCEPT
           !.attempts = n,
           !.total_time_spent = self.total_time_spent + time_spent,
           !.best_score = new_best(self.best_score, score),
           !.average_score = new_average(self.average_score, n, score),
           !.average_score_float =
               IF self.average_score_float = NULL THEN NULL
               ELSE Some(new_average_float(Value(self.average_score_float), n, score)),
           !.completion_percentage = cp,
           !.status = next_status(self.status, cp),
           !.completed_at = IF cp >= 100 THEN Some(t) ELSE self.completed_at,
           !.updated_at = t ]

----------------------------------------------------------------------------
(* LearningStreak *)

date(t) == t \div SlotsPerDay

isoformat(d) == [iso |-> d]

NewStreak ==
    [ current_streak |-> 0,
      longest_streak |-> 0,
      total_streaks |-> 0,
      last_study_date |-> NULL,
      study_dates |-> <<>>,
      milestone_7_days |-> FALSE,
      milestone_30_days |-> FALSE,
      milestone_100_days |-> FALSE,
      milestone_365_days |-> FALSE,
      updated_at |-> 0 ]

days_diff(self, study_date) == date(study_date) - date(Value(self.last_study_date))

(* a second session on the same day counted as a further day *)
streak_step_same_day_counts(self, study_date) ==
    IF self.last_study_date = NULL
    THEN [ self EXCEPT !.current_streak = 1,
                       !.study_dates = <<isoformat(date(study_date))>> ]
    ELSE IF days_diff(self, study_date) \in {0, 1}
    THEN [ self EXCEPT !.current_streak = self.current_streak + 1,
                       !.study_dates = Append(self.study_dates, isoformat(date(study_date))) ]
    ELSE [ self EXCEPT !.total_streaks = IF self.current_streak > 0
                                         THEN self.total_streaks + 1
                                         ELSE self.total_streaks,
                       !.current_streak = 1,
                       !.study_dates = <<isoformat(date(study_date))>> ]

(* a study date before the last recorded one ignored instead of breaking *)
streak_step_ignores_earlier(self, study_date) ==
    IF self.last_study_date = NULL
    THEN [ self EXCEPT !.current_streak = 1,
                       !.study_dates = <<isoformat(date(study_date))>> ]
    ELSE IF days_diff(self, study_date) = 1
    THEN [ self EXCEPT !.current_streak = self.current_streak + 1,
                       !.study_dates = Append(self.study_dates, isoformat(date(study_date))) ]
    ELSE IF days_diff(self, study_date) <= 0
    THEN self
    ELSE [ self EXCEPT !.total_streaks = IF self.current_streak > 0
                                         THEN self.total_streaks + 1
                                         ELSE self.total_streaks,
                       !.current_streak = 1,
                       !.study_dates = <<isoformat(date(study_date))>> ]

(* a break keeps the dates of the broken streak in the window *)
streak_step_keeps_window(self, study_date) ==
    IF self.last_study_date = NULL
    THEN [ self EXCEPT !.current_streak = 1,
                       !.study_dates = <<isoformat(date(study_date))>> ]
    ELSE IF days_diff(self, study_date) = 1
    THEN [ self EXCEPT !.current_streak = self.current_streak + 1,
                       !.study_dates = Append(self.study_dates, isoformat(date(study_date))) ]
    ELSE IF days_diff(self, study_date) = 0
    THEN self
    ELSE [ self EXCEPT !.total_streaks = IF self.current_streak > 0
                                         THEN self.total_streaks + 1
                                         ELSE self.total_streaks,
                       !.current_streak = 1,
                       !.study_dates = Append(self.study_dates, isoformat(date(study_date))) ]

(* the streak counters and the date window *)
streak_step(self, study_date) ==
    IF self.last_study_date = NULL
    THEN [ self EXCEPT !.current_streak = 1,
                       !.study_dates = <<isoformat(date(study_date))>> ]
    ELSE IF days_diff(self, study_date) = 1
    THEN [ self EXCEPT !.current_streak = self.current_streak + 1,
                       !.study_dates = Append(self.study_dates, isoformat(date(study_date))) ]
    ELSE IF days_diff(self, study_date) = 0
    THEN self
    ELSE [ self EXCEPT !.total_streaks = IF self.current_streak > 0
                                         THEN self.total_streaks + 1
                                         ELSE self.total_streaks,
                       !.current_streak = 1,
                       !.study_dates = <<isoformat(date(study_date))>> ]

(* longest_streak assigned whenever the streak changes *)
longest_step_follows(self) ==
    [ self EXCEPT !.longest_streak = self.current_streak ]

(* the longest streak *)
longest_step(self) ==
    IF self.current_streak > self.longest_streak
    THEN [ self EXCEPT !.longest_streak = self.current_streak ]
    ELSE self

crossed(current, threshold, flag) == current >= threshold /\ ~flag

(* the names appended to the achievements list, in order *)
milestone_achievements(self) ==
    (IF crossed(self.current_streak, SEVEN_DAYS, self.milestone_7_days)
     THEN <<SEVEN_DAY_STREAK>> ELSE <<>>)
    \o (IF crossed(self.current_streak, THIRTY_DAYS, self.milestone_30_days)
        THEN <<THIRTY_DAY_STREAK>> ELSE <<>>)
    \o (IF crossed(self.current_streak, HUNDRED_DAYS, self.milestone_100_days)
        THEN <<HUNDRED_DAY_STREAK>> ELSE <<>>)
    \o (IF crossed(self.current_streak, YEAR, self.milestone_365_days)
        THEN <<YEAR_STREAK>> ELSE <<>>)

(* the flags recomputed from the current streak, so a break clears them *)
milestone_step_resets(self) ==
    [ self EXCEPT
        !.milestone_7_days = self.current_streak >= SEVEN_DAYS,
        !.milestone_30_days = self.current_streak >= THIRTY_DAYS,
        !.milestone_100_days = self.current_streak >= HUNDRED_DAYS,
        !.milestone_365_days = self.current_streak >= YEAR ]

(* a milestone reached only when the streak exceeds its threshold *)
milestone_step_strict(self) ==
    [ self EXCEPT
        !.milestone_7_days = self.milestone_7_days \/ self.current_streak > SEVEN_DAYS,
        !.milestone_30_days = self.milestone_30_days \/ self.current_streak > THIRTY_DAYS,
        !.milestone_100_days = self.milestone_100_days \/ self.current_streak > HUNDRED_DAYS,
        !.milestone_365_days = self.milestone_365_days \/ self.current_streak > YEAR ]

milestone_step(self) ==
    [ self EXCEPT
        !.milestone_7_days = self.milestone_7_days \/ self.current_streak >= SEVEN_DAYS,
        !.milestone_30_days = self.milestone_30_days \/ self.current_streak >= THIRTY_DAYS,
        !.milestone_100_days = self.milestone_100_days \/ self.current_streak >= HUNDRED_DAYS,
        !.milestone_365_days = self.milestone_365_days \/ self.current_streak >= YEAR ]

(* LearningStreak.update_streak: the record after the call *)
update_streak(self, study_date, t) ==
    [ milestone_step(longest_step(streak_step(self, study_date)))
        EXCEPT !.last_study_date = Some(study_date), !.updated_at = t ]

(* LearningStreak.update_streak: the "achievements" entry of the result *)
update_streak_achievements(self, study_date) ==
    milestone_achievements(longest_step(streak_step(self, study_date)))

----------------------------------------------------------------------------
(* Exercise *)

(* int(n / d) for d > 0: Python's int() drops the fraction, toward zero *)
int(n, d) == IF n >= 0 THEN n \div d ELSE 0 - ((0 - n) \div d)

(* truth value of an Optional[int]: None and 0 are both false *)
truthy(opt) == opt # NULL /\ Value(opt) # 0

NewExercise == [base_xp |-> 25, time_limit |-> NULL]

(* performance in tenths; time_limit * 0.5 compared as 2 * time_taken < time_limit *)
time_bonus(self, time_taken) ==
    IF truthy(self.time_limit) /\ truthy(time_taken)
    THEN IF 2 * Value(time_taken) < Value(self.time_limit)
         THEN int(self.base_xp * 2, 10)
         ELSE IF Value(time_taken) < Value(self.time_limit)
         THEN int(self.base_xp, 10)
         ELSE 0
    ELSE 0

calculate_xp_reward(self, performance, time_taken) ==
    int(self.base_xp * performance, 10) + time_bonus(self, time_taken)

----------------------------------------------------------------------------
(* UserExerciseAttempt *)

NewAttempt == [score |-> NULL, time_taken |-> NULL, hints_used |-> 0]

(* strict comparisons with the category thresholds *)
categorize_performance_strict(self) ==
    IF self.score = NULL THEN "unknown"
    ELSE IF Value(self.score) > 9 THEN "excellent"
    ELSE IF Value(self.score) > 8 THEN "good"
    ELSE IF Value(self.score) > 6 THEN "fair"
    ELSE "needs_improvement"

categorize_performance(self) ==
    IF self.score = NULL THEN "unknown"
    ELSE IF Value(self.score) >= 9 THEN "excellent"
    ELSE IF Value(self.score) >= 8 THEN "good"
    ELSE IF Value(self.score) >= 6 THEN "fair"
    ELSE "needs_improvement"

----------------------------------------------------------------------------
(* Achievement *)

STREAK == "streak"
XP == "xp"
LESSONS == "lessons"
EXERCISES == "exercises"
TIME == "time"

AchievementTypes == {STREAK, XP, LESSONS, EXERCISES, TIME}

(* dict.get(key, default) *)
get(dict, key, default) == IF key \in DOMAIN dict THEN dict[key] ELSE default

NewAchievement ==
    [ is_active |-> TRUE,
      achievement_type |-> STREAK,
      criteria |-> [threshold |-> 10, timeframe |-> "daily"] ]

NoStats == [k \in {} |-> 0]

(* the is_active test left out *)
check_eligibility_ignores_active(self, stats) ==
    LET threshold == get(self.criteria, "threshold", 0)
    IN IF self.achievement_type = STREAK
       THEN get(stats, "current_streak", 0) >= threshold
       ELSE IF self.achievement_type = XP
       THEN get(stats, "total_xp", 0) >= threshold
       ELSE IF self.achievement_type = LESSONS
       THEN get(stats, "lessons_completed", 0) >= threshold
       ELSE IF self.achievement_type = EXERCISES
       THEN get(stats, "exercises_completed", 0) >= threshold
       ELSE IF self.achievement_type = TIME
       THEN get(stats, "total_study_time", 0) >= threshold
       ELSE FALSE

check_eligibility(self, stats) ==
    IF ~self.is_active THEN FALSE
    ELSE LET threshold == get(self.criteria, "threshold", 0)
         IN IF self.achievement_type = STREAK
            THEN get(stats, "current_streak", 0) >= threshold
            ELSE IF self.achievement_type = XP
            THEN get(stats, "total_xp", 0) >= threshold
            ELSE IF self.achievement_type = LESSONS
            THEN get(stats, "lessons_completed", 0) >= threshold
            ELSE IF self.achievement_type = EXERCISES
            THEN get(stats, "exercises_completed", 0) >= threshold
            ELSE IF self.achievement_type = TIME
            THEN get(stats, "total_study_time", 0) >= threshold
            ELSE FALSE

----------------------------------------------------------------------------
(* User *)

XP_PER_LEVEL == 1000

NewUser ==
    [ total_xp |-> 0,
      current_streak |-> 0,
      longest_streak |-> 0,
      last_study_date |-> NULL,
      updated_at |-> 0 ]

(* levels counted from 1 *)
level_from_one(self) == self.total_xp \div XP_PER_LEVEL + 1

level(self) == self.total_xp \div XP_PER_LEVEL

(* the XP left to the level boundary at or above total_xp *)
xp_to_next_level_ceiling(self) ==
    ((self.total_xp + XP_PER_LEVEL - 1) \div XP_PER_LEVEL) * XP_PER_LEVEL - self.total_xp

xp_to_next_level(self) == (level(self) + 1) * XP_PER_LEVEL - self.total_xp

(* a float in [0,1], kept as the fraction <<numerator, denominator>> *)
progress_to_next_level(self) ==
    IF xp_to_next_level(self) = 0 THEN <<1, 1>>
    ELSE <<XP_PER_LEVEL - xp_to_next_level(self), XP_PER_LEVEL>>

add_xp(self, amount, t) ==
    [ self EXCEPT !.total_xp = self.total_xp + amount, !.updated_at = t ]

get_level_info(self) ==
    [ current_level |-> level(self),
      level_start_xp |-> level(self) * XP_PER_LEVEL,
      level_end_xp |-> (level(self) + 1) * XP_PER_LEVEL - 1,
      xp_in_current_level |-> self.total_xp - level(self) * XP_PER_LEVEL,
      xp_to_next_level |-> xp_to_next_level(self),
      progress_to_next_level |-> progress_to_next_level(self),
      total_xp |-> self.total_xp ]

(* a study date before the last recorded one leaves the streak as it is *)
user_streak_step_ignores_earlier(self, study_date) ==
    IF self.last_study_date = NULL THEN 1
    ELSE IF days_diff(self, study_date) = 1 THEN self.current_streak + 1
    ELSE IF days_diff(self, study_date) <= 0 THEN self.current_streak
    ELSE 1

(* User.update_streak: current_streak after the first if/else *)
user_streak_step(self, study_date) ==
    IF self.last_study_date = NULL THEN 1
    ELSE IF days_diff(self, study_date) = 1 THEN self.current_streak + 1
    ELSE IF days_diff(self, study_date) = 0 THEN self.current_streak
    ELSE 1

(* User.update_streak *)
user_update_streak(self, study_date, t) ==
    LET current == user_streak_step(self, study_date)
    IN [ self EXCEPT
           !.current_streak = current,
           !.longest_streak = IF current > self.longest_streak
                              THEN current ELSE self.longest_streak,
           !.last_study_date = Some(study_date),
           !.updated_at = t ]

----------------------------------------------------------------------------
(* DailyGoal *)

NewGoal(target_value) ==
    [ target_value |-> target_value,
      current_value |-> 0,
      is_completed |-> FALSE,
      completed_at |-> NULL,
      updated_at |-> 0 ]

(* the completion test without "and not self.is_completed" *)
goal_update_progress_recompletes(self, value, t) ==
    LET current == self.current_value + value
    IN IF current >= self.target_value
       THEN [ self |-> [ self EXCEPT !.current_value = current,
                                     !.updated_at = t,
                                     !.is_completed = TRUE,
                                     !.completed_at = Some(t) ],
              returns |-> TRUE ]
       ELSE [ self |-> [ self EXCEPT !.current_value = current, !.updated_at = t ],
              returns |-> FALSE ]

(* DailyGoal.update_progress: the record after the call and the value returned *)
goal_update_progress(self, value, t) ==
    LET current == self.current_value + value
    IN IF current >= self.target_value /\ ~self.is_completed
       THEN [ self |-> [ self EXCEPT !.current_value = current,
                                     !.updated_at = t,
                                     !.is_completed = TRUE,
                                     !.completed_at = Some(t) ],
              returns |-> TRUE ]
       ELSE [ self |-> [ self EXCEPT !.current_value = current, !.updated_at = t ],
              returns |-> FALSE ]

----------------------------------------------------------------------------
(* Bookkeeping of the calls made so far (history, not program state) *)

NoneAwarded == [n \in AchievementNames |-> 0]

Occurrences(seq, n) == Cardinality({i \in DOMAIN seq : seq[i] = n})

Award(aw, names) == [n \in AchievementNames |-> aw[n] + Occurrences(names, n)]

(* the last call: its name, its arguments and, for update_streak, the      *)
(* value of the local days_diff (None when the method did not compute it)  *)
NoCall == [op |-> "none", args |-> <<>>, days_diff |-> NULL]

(* the update_progress calls made so far: how many, the sum of their       *)
(* scores and the largest score (None before the first call)               *)
NoneSeen == [n |-> 0, sum |-> 0, max |-> NULL]

See(sn, score) ==
    [ n |-> sn.n + 1,
      sum |-> sn.sum + score,
      max |-> IF sn.max = NULL THEN Some(score) ELSE Some(Max(Value(sn.max), score)) ]

(* the DailyGoal.update_progress calls made so far: how many returned      *)
(* True, and whether one of them has ended with current_value >=           *)
(* target_value                                                            *)
NoGoalCalls == [trues |-> 0, reached |-> FALSE]

----------------------------------------------------------------------------
(* Initial states *)

(* The streak record after one session on each of the k calendar days      *)
(* first, first+1, ..., first+k-1 of a fresh record, with the names        *)
(* awarded on the way.                                                     *)
DailySessions(first, k) ==
    [ rec |-> IF k = 0 THEN NewStreak
              ELSE [ current_streak |-> k,
                     longest_streak |-> k,
                     total_streaks |-> 0,
                     last_study_date |-> Some((first + k - 1) * SlotsPerDay),
                     study_dates |-> [i \in 1 .. k |-> isoformat(first + i - 1)],
                     milestone_7_days |-> k >= SEVEN_DAYS,
                     milestone_30_days |-> k >= THIRTY_DAYS,
                     milestone_100_days |-> k >= HUNDRED_DAYS,
                     milestone_365_days |-> k >= YEAR,
                     updated_at |-> 0 ],
      aw |-> [n \in AchievementNames |->
                IF \/ n = SEVEN_DAY_STREAK /\ k >= SEVEN_DAYS
                   \/ n = THIRTY_DAY_STREAK /\ k >= THIRTY_DAYS
                   \/ n = HUNDRED_DAY_STREAK /\ k >= HUNDRED_DAYS
                   \/ n = YEAR_STREAK /\ k >= YEAR
                THEN 1 ELSE 0] ]

(* DailySessions(first, j+1) is what update_streak makes of                *)
(* DailySessions(first, j) on the next day, for every j < k: the records   *)
(* it describes are the ones the calls produce.                            *)
DailySessionsReached(first, k) ==
    { j \in 0 .. (k - 1) :
        LET prev == DailySessions(first, j)
            study_date == (first + j) * SlotsPerDay
        IN \/ update_streak(prev.rec, study_date, 0) # DailySessions(first, j + 1).rec
           \/ Award(prev.aw, update_streak_achievements(prev.rec, study_date))
                 # DailySessions(first, j + 1).aw } = {}

(* Lengths of the run of daily sessions that precedes day 0 *)
StreakStarts == {0, SEVEN_DAYS - 1, THIRTY_DAYS - 1, HUNDRED_DAYS - 1, YEAR - 1}

InitScore ==
    /\ exercise = NewExercise
    /\ attempt = NewAttempt

InitAchievement ==
    /\ achievement = NewAchievement
    /\ user_stats = NoStats

InitUser == user = NewUser

InitGoal ==
    /\ goal = NewGoal(1)
    /\ goal_hist = NoGoalCalls

(* the components a specification does not exercise *)
InitRest ==
    /\ InitScore
    /\ InitAchievement
    /\ InitUser
    /\ InitGoal
    /\ result = NULL

InitProgress ==
    /\ progress = NewProgress
    /\ now = 0
    /\ qualifying = 0
    /\ reviews = 0
    /\ seen = NoneSeen

InitStreak ==
    /\ streak = NewStreak
    /\ ret = <<>>
    /\ awarded = NoneAwarded

Init ==
    /\ InitProgress
    /\ InitStreak
    /\ InitRest
    /\ call = NoCall

(* The record after k attempts with score 0.8 on a new record *)
RECURSIVE SeenQualifying(_)
SeenQualifying(k) == IF k = 0 THEN NoneSeen ELSE See(SeenQualifying(k - 1), 8)

RECURSIVE QualifyingAttempts(_)
QualifyingAttempts(k) ==
    IF k = 0 THEN NewProgress
    ELSE update_progress(QualifyingAttempts(k - 1), 8, 0, 0)

(* A record as it is loaded from storage: one the attempts above produce,  *)
(* or a completed one whose status column holds "mastered", the fourth     *)
(* value the column documents (no method of the model assigns it).         *)
InitStored ==
    /\ \E k \in 0 .. 5 :
          /\ qualifying = k
          /\ seen = SeenQualifying(k)
          /\ \/ progress = QualifyingAttempts(k)
             \/ /\ k = 5
                /\ progress = [QualifyingAttempts(k) EXCEPT !.status = "mastered"]
    /\ now = 0
    /\ reviews = 0
    /\ InitStreak
    /\ InitRest
    /\ call = NoCall

InitStreaks ==
    /\ InitProgress
    /\ \E k \in StreakStarts :
          /\ DailySessionsReached(0 - k, k)
          /\ streak = DailySessions(0 - k, k).rec
          /\ awarded = DailySessions(0 - k, k).aw
    /\ ret = <<>>
    /\ InitRest
    /\ call = NoCall

----------------------------------------------------------------------------
(* Actions *)

StudyDates == 0 .. ((MaxDay + 1) * SlotsPerDay - 1)

UpdateProgress(score, time_spent) ==
    /\ progress.attempts < MaxAttempts
    /\ progress' = update_progress(progress, score, time_spent, now)
    /\ qualifying' = IF score >= 8 THEN qualifying + 1 ELSE qualifying
    /\ seen' = See(seen, score)
    /\ call' = [op |-> "update_progress", args |-> <<score, time_spent>>, days_diff |-> NULL]
    /\ UNCHANGED <<now, reviews, streakVars, scoreVars, achievementVars, goalVars, user, result>>

ScheduleNextReview(limit, performance) ==
    /\ progress.review_count < limit
    /\ progress' = schedule_next_review(progress, performance, now)
    /\ reviews' = reviews + 1
    /\ call' = [op |-> "schedule_next_review", args |-> <<performance>>, days_diff |-> NULL]
    /\ UNCHANGED <<now, qualifying, seen, streakVars, scoreVars, achievementVars, goalVars, user, result>>

Tick ==
    /\ now < MaxNow
    /\ now' = now + 1
    /\ call' = [op |-> "tick", args |-> <<>>, days_diff |-> NULL]
    /\ UNCHANGED <<progress, qualifying, reviews, seen, streakVars, scoreVars, achievementVars, goalVars, user, result>>

UpdateStreak(study_date) ==
    /\ update_streak(streak, study_date, now).total_streaks <= MaxTotalStreaks
    /\ streak' = update_streak(streak, study_date, now)
    /\ ret' = update_streak_achievements(streak, study_date)
    /\ awarded' = Award(awarded, update_streak_achievements(streak, study_date))
    /\ call' = [op |-> "update_streak", args |-> <<study_date>>,
                days_diff |-> IF streak.last_study_date = NULL THEN NULL
                              ELSE Some(days_diff(streak, study_date))]
    /\ UNCHANGED <<progressVars, scoreVars, achievementVars, goalVars, user, result>>

NextReview ==
    \/ \E performance \in Scores : ScheduleNextReview(MaxReviews, performance)
    \/ Tick

NextStreak == \E study_date \in StudyDates : UpdateStreak(study_date)

SpecReview == Init /\ [][NextReview]_vars

SpecStreak == InitStreaks /\ [][NextStreak]_vars

NextProgress ==
    \/ \E score \in AttemptScores, time_spent \in TimesSpent : UpdateProgress(score, time_spent)
    \/ \E performance \in AttemptPerformances :
          ScheduleNextReview(MaxProgressReviews, performance)
    \/ Tick

SpecProgress == Init /\ [][NextProgress]_vars

NextAttempts ==
    \/ \E score \in AttemptScores, time_spent \in TimesSpent : UpdateProgress(score, time_spent)
    \/ Tick

SpecAttempts == Init /\ [][NextAttempts]_vars

SpecStored == InitStored /\ [][NextAttempts]_vars

----------------------------------------------------------------------------
(* update_progress with the float average_score followed *)

MaxRounded == 5

InitRounding ==
    /\ progress = [NewProgress EXCEPT !.average_score_float = Some(FloatZero)]
    /\ now = 0
    /\ qualifying = 0
    /\ reviews = 0
    /\ seen = NoneSeen
    /\ InitStreak
    /\ InitRest
    /\ call = NoCall

NextRounding ==
    \E score \in AttemptScores, time_spent \in TimesSpent :
        /\ progress.attempts < MaxRounded
        /\ UpdateProgress(score, time_spent)

SpecRounding == InitRounding /\ [][NextRounding]_vars

----------------------------------------------------------------------------
(* update_progress on arguments the caller did not validate *)

AnyScores == {-5, 0, 8, 13}
AnyTimesSpent == {-7, 0, 7}

NextUnchecked ==
    \E score \in AnyScores, time_spent \in AnyTimesSpent : UpdateProgress(score, time_spent)

SpecUnchecked == Init /\ [][NextUnchecked]_vars

----------------------------------------------------------------------------
(* Exercise.calculate_xp_reward and UserExerciseAttempt._categorize_performance *)

BaseXps == {10, 25, 33}
TimeLimits == {NULL, Some(45), Some(60)}
Performances == -5 .. 15
TimesTaken == {NULL, Some(0), Some(10), Some(22), Some(23), Some(30), Some(45), Some(59), Some(60), Some(90)}
AttemptScoreValues == {NULL} \cup {Some(v) : v \in -1 .. 11}

InitScores ==
    /\ InitProgress
    /\ InitStreak
    /\ InitAchievement
    /\ InitUser
    /\ InitGoal
    /\ exercise \in [base_xp : BaseXps, time_limit : TimeLimits]
    /\ attempt \in [score : AttemptScoreValues, time_taken : {NULL}, hints_used : {0}]
    /\ result = NULL
    /\ call = NoCall

CalculateXpReward(performance, time_taken) ==
    /\ result' = Some(calculate_xp_reward(exercise, performance, time_taken))
    /\ call' = [op |-> "calculate_xp_reward", args |-> <<performance, time_taken>>,
                days_diff |-> NULL]
    /\ UNCHANGED <<progressVars, streakVars, scoreVars, achievementVars, goalVars, user>>

CategorizePerformance ==
    /\ result' = Some(categorize_performance(attempt))
    /\ call' = [op |-> "_categorize_performance", args |-> <<>>, days_diff |-> NULL]
    /\ UNCHANGED <<progressVars, streakVars, scoreVars, achievementVars, goalVars, user>>

NextScores ==
    \/ \E performance \in Performances, time_taken \in TimesTaken :
          CalculateXpReward(performance, time_taken)
    \/ CategorizePerformance

SpecScores == InitScores /\ [][NextScores]_vars

----------------------------------------------------------------------------
(* Achievement.check_eligibility *)

StatKeys == {"current_streak", "total_xp", "lessons_completed", "exercises_completed",
             "total_study_time"}
StatValues == {4, 10}
Criteria == { [timeframe |-> "lifetime"],
              [threshold |-> 5, timeframe |-> "daily"],
              [threshold |-> 10, timeframe |-> "daily"] }

InitAchievements ==
    /\ InitProgress
    /\ InitStreak
    /\ InitScore
    /\ InitUser
    /\ InitGoal
    /\ achievement \in [ is_active : BOOLEAN,
                         achievement_type : AchievementTypes \cup {"unknown"},
                         criteria : Criteria ]
    /\ user_stats \in [StatKeys -> StatValues] \cup {NoStats}
    /\ result = NULL
    /\ call = NoCall

CheckEligibility ==
    /\ result' = Some(check_eligibility(achievement, user_stats))
    /\ call' = [op |-> "check_eligibility", args |-> <<>>, days_diff |-> NULL]
    /\ UNCHANGED <<progressVars, streakVars, scoreVars, achievementVars, goalVars, user>>

NextAchievements == CheckEligibility

SpecAchievements == InitAchievements /\ [][NextAchievements]_vars

----------------------------------------------------------------------------
(* User.add_xp and the level properties *)

MaxXp == 3000
XpAmounts == {0, 1, 250, 999, 1000}

AddXp(amount) ==
    /\ user.total_xp + amount <= MaxXp
    /\ user' = add_xp(user, amount, now)
    /\ call' = [op |-> "add_xp", args |-> <<amount>>, days_diff |-> NULL]
    /\ UNCHANGED <<progressVars, streakVars, scoreVars, achievementVars, goalVars, result>>

NextUser == \E amount \in XpAmounts : AddXp(amount)

SpecUser == Init /\ [][NextUser]_vars

----------------------------------------------------------------------------
(* A study session recorded on the user and on the user's learning streak *)

StudySession(study_date) ==
    /\ update_streak(streak, study_date, now).total_streaks <= MaxTotalStreaks
    /\ streak' = update_streak(streak, study_date, now)
    /\ ret' = update_streak_achievements(streak, study_date)
    /\ awarded' = Award(awarded, update_streak_achievements(streak, study_date))
    /\ user' = user_update_streak(user, study_date, now)
    /\ call' = [op |-> "study_session", args |-> <<study_date>>,
                days_diff |-> IF streak.last_study_date = NULL THEN NULL
                              ELSE Some(days_diff(streak, study_date))]
    /\ UNCHANGED <<progressVars, scoreVars, achievementVars, goalVars, result>>

NextSessions == \E study_date \in StudyDates : StudySession(study_date)

SpecSessions == Init /\ [][NextSessions]_vars

----------------------------------------------------------------------------
(* DailyGoal.update_progress *)

MaxGoalValue == 6
TargetValues == {0, 3, 5}
GoalValues == {0, 1, 2, 5}

InitGoals ==
    /\ InitProgress
    /\ InitStreak
    /\ InitScore
    /\ InitAchievement
    /\ InitUser
    /\ \E target_value \in TargetValues : goal = NewGoal(target_value)
    /\ goal_hist = NoGoalCalls
    /\ result = NULL
    /\ call = NoCall

GoalUpdateProgress(value) ==
    LET r == goal_update_progress(goal, value, now)
    IN /\ r.self.current_value <= MaxGoalValue
       /\ goal' = r.self
       /\ result' = Some(r.returns)
       /\ goal_hist' =
            [ trues |-> goal_hist.trues + (IF r.returns THEN 1 ELSE 0),
              reached |-> goal_hist.reached \/ r.self.current_value >= r.self.target_value ]
       /\ call' = [op |-> "goal_update_progress", args |-> <<value>>, days_diff |-> NULL]
       /\ UNCHANGED <<progressVars, streakVars, scoreVars, achievementVars, user>>

NextGoals ==
    \/ \E value \in GoalValues : GoalUpdateProgress(value)
    \/ Tick

SpecGoals == InitGoals /\ [][NextGoals]_vars

----------------------------------------------------------------------------
(* Vocabulary of the properties *)

Threshold(n) ==
    IF n = SEVEN_DAY_STREAK THEN SEVEN_DAYS
    ELSE IF n = THIRTY_DAY_STREAK THEN THIRTY_DAYS
    ELSE IF n = HUNDRED_DAY_STREAK THEN HUNDRED_DAYS
    ELSE YEAR

Flag(rec, n) ==
    IF n = SEVEN_DAY_STREAK THEN rec.milestone_7_days
    ELSE IF n = THIRTY_DAY_STREAK THEN rec.milestone_30_days
    ELSE IF n = HUNDRED_DAY_STREAK THEN rec.milestone_100_days
    ELSE rec.milestone_365_days

Returned(n) == \E i \in DOMAIN ret : ret[i] = n

Rank(status) == CHOOSE i \in DOMAIN Statuses : Statuses[i] = status

StreakCall == call.op = "update_streak"

ProgressCall == call.op = "update_progress"

ReviewCall == call.op = "schedule_next_review"

----------------------------------------------------------------------------
(* C1: from the default ease_factor 2.5, after any sequence of             *)
(* schedule_next_review calls with performances in [0,1], successes and    *)
(* failures in any order, ease_factor is at least 1.3.                     *)
EaseFactorFloor == progress.ease_factor >= 1300

(* a failed review that found ease_factor already within 0.2 of the floor *)
EaseFactorFloorReached ==
    /\ ReviewCall
    /\ call.args[1] < 6
    /\ progress.ease_factor = 1300
    /\ progress.review_count >= 7

(* C2: after every LearningStreak.update_streak call longest_streak >=     *)
(* current_streak, and longest_streak never decreases from one call to     *)
(* the next.                                                               *)
LongestStreakDominates ==
    /\ [](streak.longest_streak >= streak.current_streak)
    /\ [][streak'.longest_streak >= streak.longest_streak]_vars

(* a streak broken after it had grown: the current streak is below the longest *)
LongestAboveCurrent ==
    /\ StreakCall
    /\ streak.current_streak = 1
    /\ streak.longest_streak >= 3
    /\ streak.total_streaks >= 1

(* C3: an update_streak call with a study date on the calendar day of      *)
(* last_study_date leaves current_streak, longest_streak, total_streaks,   *)
(* study_dates and the four milestone flags as they were and returns an    *)
(* empty achievements list.                                                *)
SameDayIdempotent ==
    [][ (call'.op = "update_streak" /\ call'.days_diff = Some(0)) =>
          /\ streak'.current_streak = streak.current_streak
          /\ streak'.longest_streak = streak.longest_streak
          /\ streak'.total_streaks = streak.total_streaks
          /\ streak'.study_dates = streak.study_dates
          /\ \A n \in AchievementNames : Flag(streak', n) = Flag(streak, n)
          /\ ret' = <<>> ]_vars

(* a second session later on the day on which the streak reached 7 *)
SameDaySecondCall ==
    /\ StreakCall
    /\ call.days_diff = Some(0)
    /\ call.args[1] % SlotsPerDay = 1
    /\ streak.current_streak = SEVEN_DAYS
    /\ awarded[SEVEN_DAY_STREAK] = 1

(* C4: an update_streak call whose calendar-day difference from            *)
(* last_study_date is greater than 1 or negative is a streak break:        *)
(* total_streaks goes up by 1 if current_streak > 0, current_streak        *)
(* becomes 1 and study_dates becomes the single new date.  Dates D, D+1,   *)
(* D+2, D+10 on a fresh record give current_streak 1, 2, 3, 1 with         *)
(* longest_streak 3 and total_streaks 1 at the end.                        *)
ScenarioBreak(D) ==
    LET s1 == update_streak(NewStreak, D * SlotsPerDay, 0)
        s2 == update_streak(s1, (D + 1) * SlotsPerDay, 0)
        s3 == update_streak(s2, (D + 2) * SlotsPerDay, 0)
        s4 == update_streak(s3, (D + 10) * SlotsPerDay, 0)
    IN /\ <<s1.current_streak, s2.current_streak, s3.current_streak, s4.current_streak>>
            = <<1, 2, 3, 1>>
       /\ s4.longest_streak = 3
       /\ s4.total_streaks = 1

StreakBreak ==
    /\ [](\A D \in 0 .. (MaxDay - 10) : ScenarioBreak(D))
    /\ [][ ( /\ call'.op = "update_streak"
             /\ call'.days_diff # NULL
             /\ call'.days_diff # Some(0)
             /\ call'.days_diff # Some(1) ) =>
             /\ streak'.total_streaks =
                  streak.total_streaks + (IF streak.current_streak > 0 THEN 1 ELSE 0)
             /\ streak'.current_streak = 1
             /\ streak'.study_dates = <<isoformat(date(call'.args[1]))>> ]_vars

(* the state after the dates D, D+1, D+2, D+10 *)
BrokenAfterThree ==
    /\ StreakCall
    /\ call.days_diff = Some(8)
    /\ streak.current_streak = 1
    /\ streak.longest_streak = 3
    /\ streak.total_streaks = 1
    /\ Len(streak.study_dates) = 1

(* a study date earlier than the last recorded one *)
BrokenByEarlierDate ==
    /\ StreakCall
    /\ call.days_diff # NULL
    /\ Value(call.days_diff) < 0
    /\ streak.current_streak = 1

(* C5: across any sequence of update_streak calls, also when the streak    *)
(* breaks and is rebuilt past the same threshold, no milestone flag goes   *)
(* from true to false, and each milestone name is returned by at most one  *)
(* call: the call in which current_streak first reaches the threshold.     *)
MilestonesOnce ==
    /\ [](\A n \in AchievementNames : awarded[n] <= 1)
    /\ [][ \A n \in AchievementNames :
             /\ Flag(streak, n) => Flag(streak', n)
             /\ call'.op = "update_streak" =>
                  (Returned(n)' <=> /\ streak'.current_streak >= Threshold(n)
                                    /\ streak.longest_streak < Threshold(n)) ]_vars

(* a streak rebuilt to 7 days after a break, the 7-day name not returned again *)
RebuiltPastSeven ==
    /\ StreakCall
    /\ call.days_diff = Some(1)
    /\ streak.current_streak = SEVEN_DAYS
    /\ streak.total_streaks >= 1
    /\ streak.milestone_7_days
    /\ awarded[SEVEN_DAY_STREAK] = 1
    /\ ret = <<>>

(* C6: across update_progress calls with non-negative scores best_score    *)
(* and completion_percentage never decrease, and completion_percentage     *)
(* stays within [0,100].                                                   *)
ProgressMonotonic ==
    /\ [](progress.completion_percentage >= 0 /\ progress.completion_percentage <= 100)
    /\ [][ /\ progress'.best_score >= progress.best_score
           /\ progress'.completion_percentage >= progress.completion_percentage ]_vars

(* a qualifying attempt below the best score, made when completion was already 100 *)
LowerScoreAtFullCompletion ==
    /\ ProgressCall
    /\ call.args[1] >= 8
    /\ call.args[1] < progress.best_score
    /\ progress.completion_percentage = 100
    /\ progress.attempts = 6
    /\ qualifying = 6

(* C7: on a fresh record completion_percentage is min(100, 20 x the number *)
(* of calls with score >= 0.8), and status is "completed" from the fifth   *)
(* such call on; five calls with score 0.8 give 100 and "completed".       *)
CompletionCountsQualifying ==
    /\ progress.completion_percentage = Min(100, 20 * qualifying)
    /\ progress.status = "completed" <=> qualifying >= 5

(* five consecutive attempts, each with score 0.8 *)
FiveAttemptsAtEightTenths ==
    /\ ProgressCall
    /\ progress.attempts = 5
    /\ qualifying = 5
    /\ progress.average_score = <<8, 1>>
    /\ progress.best_score = 8
    /\ progress.completion_percentage = 100
    /\ progress.status = "completed"

FirstCallStartsLesson ==
    /\ progress.attempts = 1 => progress.status = "in_progress"
    /\ progress.attempts >= 1 => progress.status # "not_started"

(* C9 amended: the first update_progress call on a new record moves status *)
(* to in_progress exactly when its score is >= 0.8; the record stays       *)
(* not_started until the first call with a score >= 0.8.                   *)
FirstQualifyingCallStartsLesson ==
    /\ [](progress.status = "not_started" <=> qualifying = 0)
    /\ [][ (call'.op = "update_progress" /\ progress.attempts = 0) =>
             progress'.status = IF call'.args[1] >= 8 THEN "in_progress" ELSE "not_started" ]_vars

(* a first attempt below 0.8 *)
FirstAttemptBelowThreshold ==
    /\ ProgressCall
    /\ progress.attempts = 1
    /\ call.args[1] < 8
    /\ progress.status = "not_started"

----------------------------------------------------------------------------
(* Vocabulary of the properties of the score, achievement and level functions *)

XpCall == call.op = "calculate_xp_reward"

Clamp(lo, hi, x) == IF x < lo THEN lo ELSE IF x > hi THEN hi ELSE x

(* floor(n / d) for d > 0 *)
Floor(n, d) == n \div d

StatKeyOf(type) ==
    IF type = STREAK THEN "current_streak"
    ELSE IF type = XP THEN "total_xp"
    ELSE IF type = LESSONS THEN "lessons_completed"
    ELSE IF type = EXERCISES THEN "exercises_completed"
    ELSE "total_study_time"

(* C11: update_progress clamps a negative score and a negative time_spent  *)
(* to 0: over any sequence of calls with arbitrary arguments               *)
(* total_time_spent never decreases and average_score and best_score stay  *)
(* within [0,1].                                                           *)
InputsClamped ==
    /\ []( /\ progress.best_score >= 0 /\ progress.best_score <= 10
           /\ progress.average_score[1] >= 0
           /\ progress.average_score[1] <= 10 * progress.average_score[2] )
    /\ [][progress'.total_time_spent >= progress.total_time_spent]_vars

(* C12: calculate_xp_reward clamps performance to [0,1]: below 0 it gives  *)
(* the result for 0, above 1 the result for 1, so the XP is never negative *)
(* and never above base_xp + floor(base_xp * 0.2).                         *)
PerformanceClamped ==
    XpCall =>
      /\ Value(result) =
           calculate_xp_reward(exercise, Clamp(0, 10, call.args[1]), call.args[2])
      /\ Value(result) >= 0
      /\ Value(result) <= exercise.base_xp + Floor(exercise.base_xp * 2, 10)

(* C13: with a time limit and a given time_taken >= 0, time_taken = 0      *)
(* included, the reward is floor(base_xp * performance) plus               *)
(* floor(base_xp * 0.2) when time_taken < 0.5 * time_limit,                *)
(* floor(base_xp * 0.1) when 0.5 * time_limit <= time_taken < time_limit   *)
(* and 0 when time_taken >= time_limit; without a time limit or a          *)
(* time_taken the bonus is 0.                                              *)
ClaimedTimeBonus(base_xp, time_limit, time_taken) ==
    IF time_limit = NULL \/ time_taken = NULL THEN 0
    ELSE IF 2 * Value(time_taken) < Value(time_limit) THEN Floor(base_xp * 2, 10)
    ELSE IF Value(time_taken) < Value(time_limit) THEN Floor(base_xp, 10)
    ELSE 0

TimeBonusTiers ==
    (XpCall /\ call.args[1] >= 0 /\ call.args[1] <= 10) =>
      Value(result) = Floor(exercise.base_xp * call.args[1], 10)
                        + ClaimedTimeBonus(exercise.base_xp, exercise.time_limit, call.args[2])

(* C14: a successful review (performance >= 0.6) is scheduled 1 day ahead  *)
(* when review_count is 0 before the call and 6 days ahead when it is 1,   *)
(* whatever ease_factor is.                                                *)
FirstIntervalsFixed ==
    [][ ( /\ call'.op = "schedule_next_review"
          /\ call'.args[1] >= 6
          /\ progress.review_count \in {0, 1} ) =>
          progress'.next_review =
            Some(now + (IF progress.review_count = 0 THEN 1 ELSE 6) * SlotsPerDay) ]_vars

(* a second review, successful, after a failed first one lowered ease_factor *)
SecondReviewAfterFailure ==
    /\ ReviewCall
    /\ call.args[1] >= 6
    /\ progress.review_count = 2
    /\ progress.ease_factor < 2300
    /\ Value(progress.next_review) = Value(progress.last_reviewed) + 6 * SlotsPerDay

(* C15: a failed review (performance < 0.6) is scheduled 1 day ahead       *)
(* whatever review_count is and sets ease_factor to                        *)
(* max(1.3, ease_factor - 0.2); performance 0.5 on ease_factor 2.5 gives   *)
(* ease_factor 2.3 and interval 1.                                         *)
FailedReviewResult ==
    /\ [](LET r == schedule_next_review(NewProgress, 5, now)
          IN r.ease_factor = 2300 /\ r.next_review = Some(now + SlotsPerDay))
    /\ [][ (call'.op = "schedule_next_review" /\ call'.args[1] < 6) =>
             /\ progress'.next_review = Some(now + SlotsPerDay)
             /\ progress'.ease_factor = IF progress.ease_factor - 200 >= 1300
                                        THEN progress.ease_factor - 200
                                        ELSE 1300 ]_vars

(* a failed review of a record that had been reviewed several times *)
LateFailedReview ==
    /\ ReviewCall
    /\ call.args[1] < 6
    /\ progress.review_count >= 4
    /\ progress.ease_factor > 1300
    /\ Value(progress.next_review) = Value(progress.last_reviewed) + SlotsPerDay

(* C16: every schedule_next_review call adds exactly 1 to review_count, on *)
(* success and on failure; review_count never goes down, so after n calls  *)
(* on a fresh record it is n.                                              *)
ReviewCountCounts ==
    /\ [](progress.review_count = reviews)
    /\ [][ /\ progress'.review_count >= progress.review_count
           /\ call'.op = "schedule_next_review" =>
                progress'.review_count = progress.review_count + 1 ]_vars

(* a failed review after an earlier review, with attempts recorded in between *)
FailedReviewCounted ==
    /\ ReviewCall
    /\ call.args[1] < 6
    /\ progress.review_count = 2
    /\ progress.attempts >= 1

(* C17: check_eligibility returns true exactly when the achievement is     *)
(* active, its type is one of streak, xp, lessons, exercises, time and the *)
(* matching statistic is >= the criteria threshold (a missing threshold or *)
(* statistic counts as 0); the call changes neither the achievement nor    *)
(* the statistics.                                                         *)
EligibilityRule ==
    /\ [](call.op = "check_eligibility" =>
            (Value(result) <=>
               /\ achievement.is_active
               /\ achievement.achievement_type \in {"streak", "xp", "lessons", "exercises", "time"}
               /\ (IF StatKeyOf(achievement.achievement_type) \in DOMAIN user_stats
                   THEN user_stats[StatKeyOf(achievement.achievement_type)] ELSE 0)
                    >= (IF "threshold" \in DOMAIN achievement.criteria
                        THEN achievement.criteria.threshold ELSE 0)))
    /\ [][achievement' = achievement /\ user_stats' = user_stats]_vars

(* an active study-time achievement whose threshold is exactly met *)
ThresholdExactlyMet ==
    /\ call.op = "check_eligibility"
    /\ achievement.is_active
    /\ achievement.achievement_type = "time"
    /\ "threshold" \in DOMAIN achievement.criteria
    /\ user_stats # NoStats
    /\ user_stats["total_study_time"] = achievement.criteria.threshold
    /\ result = Some(TRUE)

(* an inactive achievement whose threshold is met *)
InactiveNotEligible ==
    /\ call.op = "check_eligibility"
    /\ ~achievement.is_active
    /\ achievement.achievement_type = "xp"
    /\ user_stats # NoStats
    /\ user_stats["total_xp"] = 10
    /\ result = Some(FALSE)

(* C18: for every total_xp >= 0 level is floor(total_xp / 1000),           *)
(* xp_to_next_level is (level + 1) * 1000 - total_xp and                   *)
(* progress_to_next_level is 1 - xp_to_next_level / 1000, within [0,1];    *)
(* level is 0 at 0 XP and 1 at 1000 XP and never decreases under add_xp    *)
(* with non-negative amounts.                                              *)
LevelRule ==
    /\ []( /\ level(user) * 1000 <= user.total_xp
           /\ user.total_xp < (level(user) + 1) * 1000
           /\ xp_to_next_level(user) = (level(user) + 1) * 1000 - user.total_xp
           /\ progress_to_next_level(user)[1] * 1000
                = progress_to_next_level(user)[2] * (1000 - xp_to_next_level(user))
           /\ progress_to_next_level(user)[1] >= 0
           /\ progress_to_next_level(user)[1] <= progress_to_next_level(user)[2]
           /\ user.total_xp = 0 => level(user) = 0
           /\ user.total_xp = 1000 => level(user) = 1 )
    /\ [][level(user') >= level(user)]_vars

(* the level boundary reached exactly, from 999 XP *)
LevelOneReached ==
    /\ call.op = "add_xp"
    /\ call.args[1] = 1
    /\ user.total_xp = 1000
    /\ level(user) = 1
    /\ xp_to_next_level(user) = 1000

(* C19: _categorize_performance returns "excellent" for score >= 0.9,      *)
(* "good" for 0.8 <= score < 0.9, "fair" for 0.6 <= score < 0.8,           *)
(* "needs_improvement" for score < 0.6 and "unknown" for an absent score.  *)
CategoryPartition ==
    call.op = "_categorize_performance" =>
      /\ attempt.score = NULL => result = Some("unknown")
      /\ attempt.score # NULL =>
           /\ Value(attempt.score) >= 9 => result = Some("excellent")
           /\ (Value(attempt.score) >= 8 /\ Value(attempt.score) < 9) => result = Some("good")
           /\ (Value(attempt.score) >= 6 /\ Value(attempt.score) < 8) => result = Some("fair")
           /\ Value(attempt.score) < 6 => result = Some("needs_improvement")

(* a score exactly on the 0.8 boundary *)
BoundaryScoreGood ==
    /\ call.op = "_categorize_performance"
    /\ attempt.score = Some(8)
    /\ result = Some("good")

(* C20: an update_progress call leaves ease_factor, review_count,          *)
(* next_review and last_reviewed exactly as they were; only                *)
(* schedule_next_review changes them.                                      *)
AttemptKeepsReviewFields ==
    [][ call'.op # "schedule_next_review" =>
          /\ progress'.ease_factor = progress.ease_factor
          /\ progress'.review_count = progress.review_count
          /\ progress'.next_review = progress.next_review
          /\ progress'.last_reviewed = progress.last_reviewed ]_vars

(* an attempt recorded after two reviews, at a later time than the reviews *)
AttemptAfterReviews ==
    /\ ProgressCall
    /\ progress.review_count = 2
    /\ progress.ease_factor # 2500
    /\ progress.last_reviewed = Some(0)
    /\ progress.updated_at = 1

----------------------------------------------------------------------------
(* Vocabulary of the properties of the running mean, the streak window,    *)
(* the two streak counters and the daily goal                              *)

SessionCall == call.op = "study_session"

GoalCall == call.op = "goal_update_progress"

(* the entries of a date window are consecutive calendar days, increasing *)
ConsecutiveDays(dates) ==
    \A i \in 1 .. (Len(dates) - 1) : dates[i + 1] = isoformat(dates[i].iso + 1)

(* the float x is the mean sum/(10*n) of n scores, given in tenths, to a    *)
(* relative error of at most 2^-40                                         *)
WithinRounding(x, sum, n) ==
    IF x.m = {} THEN sum = 0
    ELSE LET A == MulBits(x.m, 10 * n)
             S == Shl(Bits(sum), 0 - x.e)
         IN /\ ~Less(AddBits(S, Shr(S, 40)), A)
            /\ ~Less(AddBits(A, Shr(A, 40)), S)

LaterIntervalsFromEase ==
    [][ ( /\ call'.op = "schedule_next_review"
          /\ call'.args[1] >= 6
          /\ progress.review_count >= 2 ) =>
          LET twice_q == 10 - call'.args[1]
              raised == progress.ease_factor + 100 - 40 * twice_q - 5 * twice_q * twice_q
          IN /\ progress'.next_review =
                  Some(now + Floor(progress.ease_factor * progress.review_count, 1000)
                               * SlotsPerDay)
             /\ progress'.ease_factor = IF raised >= 1300 THEN raised ELSE 1300
             /\ call'.args[1] = 10 => progress'.ease_factor = progress.ease_factor + 100
             /\ call'.args[1] = 8 => progress'.ease_factor = progress.ease_factor
             /\ (call'.args[1] = 6 /\ progress.ease_factor >= 1440) =>
                  progress'.ease_factor = progress.ease_factor - 140 ]_vars

(* the third review, perfect like the two before it: 2.7 * 2 = 5.4, 5 days *)
ThirdPerfectReview ==
    /\ ReviewCall
    /\ call.args[1] = 10
    /\ progress.review_count = 3
    /\ progress.ease_factor = 2800
    /\ Value(progress.next_review) = Value(progress.last_reviewed) + 5 * SlotsPerDay

(* C23: in every state reached from a fresh LearningStreak by              *)
(* update_streak calls, study_dates has current_streak entries, the        *)
(* entries are distinct consecutive calendar days in increasing order and  *)
(* the last one is the calendar day of last_study_date.                    *)
WindowIsStreak ==
    /\ Len(streak.study_dates) = streak.current_streak
    /\ ConsecutiveDays(streak.study_dates)
    /\ streak.last_study_date # NULL =>
         /\ Len(streak.study_dates) >= 1
         /\ streak.study_dates[Len(streak.study_dates)]
              = isoformat(date(Value(streak.last_study_date)))

(* a streak rebuilt to three days after a break *)
WindowRebuilt ==
    /\ StreakCall
    /\ streak.total_streaks >= 1
    /\ streak.current_streak = 3
    /\ Len(streak.study_dates) = 3
    /\ streak.longest_streak > 3

(* C24: in every state reached from a fresh LearningStreak by              *)
(* update_streak calls, each milestone flag is true exactly when           *)
(* longest_streak has reached its threshold, and no call returns more than *)
(* one achievement name.                                                   *)
FlagsFollowLongest ==
    /\ \A n \in AchievementNames : Flag(streak, n) <=> streak.longest_streak >= Threshold(n)
    /\ Len(ret) <= 1

(* the call that brings the streak to exactly 30 days *)
ThirtiethDay ==
    /\ StreakCall
    /\ streak.current_streak = THIRTY_DAYS
    /\ streak.longest_streak = THIRTY_DAYS
    /\ streak.milestone_7_days
    /\ streak.milestone_30_days
    /\ ~streak.milestone_100_days
    /\ ret = <<THIRTY_DAY_STREAK>>

(* C25: User.update_streak and LearningStreak.update_streak, fed the same  *)
(* study dates from fresh records, hold equal current_streak and equal     *)
(* longest_streak after every call.                                        *)
StreakCountersAgree ==
    /\ user.current_streak = streak.current_streak
    /\ user.longest_streak = streak.longest_streak
    /\ user.last_study_date = streak.last_study_date

(* a session dated before the last recorded one, breaking both streaks *)
EarlierDateBreaksBoth ==
    /\ SessionCall
    /\ call.days_diff # NULL
    /\ Value(call.days_diff) < 0
    /\ user.current_streak = 1
    /\ user.longest_streak >= 2
    /\ streak.total_streaks >= 1

(* C26: in every state reached from a fresh record by update_progress      *)
(* calls with scores in [0,1], best_score >= average_score and best_score  *)
(* is the maximum score seen so far.                                       *)
BestIsMaximum ==
    /\ float_le(Value(progress.average_score_float), float_score(progress.best_score))
    /\ seen.max # NULL => progress.best_score = Value(seen.max)

(* C27: in every state reached from a fresh record by update_progress      *)
(* calls, status is "completed" iff completion_percentage is 100 iff       *)
(* completed_at is set, "in_progress" iff 0 < completion_percentage < 100  *)
(* and "not_started" iff completion_percentage is 0.                       *)
StatusMatchesCompletion ==
    /\ progress.status = "completed" <=> progress.completion_percentage = 100
    /\ progress.completion_percentage = 100 <=> progress.completed_at # NULL
    /\ progress.status = "in_progress" <=>
         (progress.completion_percentage > 0 /\ progress.completion_percentage < 100)
    /\ progress.status = "not_started" <=> progress.completion_percentage = 0

(* an attempt below 0.8 at 80 percent: still in progress, not completed *)
EightyPercentInProgress ==
    /\ ProgressCall
    /\ call.args[1] < 8
    /\ progress.completion_percentage = 80
    /\ progress.status = "in_progress"
    /\ progress.completed_at = NULL

(* C28: after any schedule_next_review call on a record with ease_factor   *)
(* >= 1.3 and review_count >= 0 the interval is at least 1 day:            *)
(* last_reviewed and next_review are set and next_review is later.         *)
NextReviewLater ==
    /\ []( progress.review_count >= 1 =>
             /\ progress.last_reviewed # NULL
             /\ progress.next_review # NULL )
    /\ [][ call'.op = "schedule_next_review" =>
             /\ progress.ease_factor >= 1300
             /\ progress.review_count >= 0
             /\ progress'.last_reviewed = Some(now)
             /\ progress'.next_review # NULL
             /\ Value(progress'.next_review) >= now + SlotsPerDay ]_vars

(* a successful review at the lowest ease factor: floor(1.3 * review_count) days *)
ReviewAtLowestEase ==
    /\ ReviewCall
    /\ call.args[1] = 6
    /\ progress.ease_factor = 1300
    /\ progress.review_count >= 7
    /\ Value(progress.next_review) > Value(progress.last_reviewed) + SlotsPerDay

(* C29: for every total_xp >= 0 xp_to_next_level lies in 1..1000, never 0, *)
(* so progress_to_next_level never takes its xp_needed == 0 branch; in     *)
(* get_level_info xp_in_current_level + xp_to_next_level = 1000 and        *)
(* level_start_xp <= total_xp <= level_end_xp.                             *)
LevelInfoConsistent ==
    /\ xp_to_next_level(user) >= 1
    /\ xp_to_next_level(user) <= 1000
    /\ get_level_info(user).xp_in_current_level + get_level_info(user).xp_to_next_level = 1000
    /\ get_level_info(user).level_start_xp <= user.total_xp
    /\ user.total_xp <= get_level_info(user).level_end_xp
    /\ get_level_info(user).total_xp = user.total_xp

(* one XP short of level 2 *)
LevelTwoBoundary ==
    /\ call.op = "add_xp"
    /\ user.total_xp = 1999
    /\ get_level_info(user).current_level = 1
    /\ get_level_info(user).level_end_xp = 1999
    /\ get_level_info(user).xp_in_current_level = 999
    /\ get_level_info(user).xp_to_next_level = 1

(* C30: across DailyGoal.update_progress calls with non-negative values on *)
(* a goal that starts not completed, the call returns True at most once,   *)
(* on the first call after which current_value >= target_value;            *)
(* is_completed never reverts to false and completed_at is set once.       *)
GoalCompletesOnce ==
    /\ []( /\ goal_hist.trues <= 1
           /\ goal.is_completed <=> goal.completed_at # NULL
           /\ goal.is_completed <=> goal_hist.trues = 1 )
    /\ [][ /\ goal.is_completed => goal'.is_completed
           /\ goal.completed_at # NULL => goal'.completed_at = goal.completed_at
           /\ call'.op = "goal_update_progress" =>
                ( result' = Some(TRUE) <=>
                    /\ goal'.current_value >= goal'.target_value
                    /\ ~goal_hist.reached ) ]_vars

(* progress added, at a later time, to a goal that was already completed *)
ProgressAfterCompletion ==
    /\ GoalCall
    /\ call.args[1] > 0
    /\ goal.is_completed
    /\ goal.current_value > goal.target_value
    /\ goal.completed_at = Some(0)
    /\ goal.updated_at = 1
    /\ goal_hist.trues = 1
    /\ result = Some(FALSE)

====
